---- MODULE Spec2Model ----
(***************************************************************************)
(* go-httplog: the response observer (responseLogger), the request-phase   *)
(* handler, the field registry and the compact-args formatter of           *)
(* src/http.go, as a state machine driven by RegisterMiddleware.           *)
(*                                                                         *)
(* Strings whose characters the code inspects (header values, query        *)
(* strings, computed field values) are sequences of one-character strings; *)
(* the empty string is <<>>.  Field selectors (map keys) and log messages  *)
(* are opaque tags and stay TLA+ strings.                                  *)
(***************************************************************************)
EXTENDS Integers, Sequences, FiniteSets, TLC

VARIABLES
    cfg,        \* Logger.cfg: the Config given to New
    req,        \* the inbound *http.Request
    pc,         \* position inside the middleware closure of RegisterMiddleware
    hdr,        \* writer.Header(): the header map of the underlying ResponseWriter
    status,     \* responseLogger.status
    size,       \* responseLogger.size
    committed,  \* responseLogger.committed
    logged,     \* responseLogger.logged
    events      \* every call, in program order: handler -> observer ("call"/"return"),
                \* observer -> underlying writer ("writer"), code -> FieldLogger ("sink")

vars == <<cfg, req, pc, hdr, status, size, committed, logged, events>>

\* Number of WriteHeader/Write calls one handler makes on its ResponseWriter.
MaxCalls == 3

(***************************************************************************)
(* Strings                                                                 *)
(***************************************************************************)

Digits == <<"0", "1", "2", "3", "4", "5", "6", "7", "8", "9">>

\* fmt.Sprintf("%d", n) for n >= 0
RECURSIVE Itoa(_)
Itoa(n) ==
    IF n < 10 THEN <<Digits[n + 1]>>
    ELSE Itoa(n \div 10) \o <<Digits[(n % 10) + 1]>>

\* strings.Split(s, sep) for a one-character separator: always at least one element
RECURSIVE Split(_, _)
Split(s, sep) ==
    IF \A i \in 1..Len(s) : s[i] # sep THEN <<s>>
    ELSE LET i == CHOOSE k \in 1..Len(s) :
                      s[k] = sep /\ \A j \in 1..(k - 1) : s[j] # sep
         IN  <<SubSeq(s, 1, i - 1)>> \o Split(SubSeq(s, i + 1, Len(s)), sep)

\* strings.Join(elems, sep)
RECURSIVE Join(_, _)
Join(elems, sep) ==
    IF Len(elems) = 0 THEN <<>>
    ELSE IF Len(elems) = 1 THEN elems[1]
    ELSE elems[1] \o sep \o Join(Tail(elems), sep)

\* http.Header.Get / url.Values lookup: the value, or "" when the key is absent
Get(h, k) == IF k \in DOMAIN h THEN h[k] ELSE <<>>

\* an http.Header with no entries
NoHeader == [k \in {} |-> <<>>]

(***************************************************************************)
(* Compact-args formatter                                                  *)
(***************************************************************************)

\* a loop that keeps every element's key, the empty ones too
argsOnly_KeepEmptyKeys(argElems) ==
    [i \in 1..Len(argElems) |-> Split(argElems[i], "=")[1]]

\* the loop of formatCompactArgs: the keys of the elements whose key is non-empty
RECURSIVE argsOnly(_)
argsOnly(argElems) ==
    IF Len(argElems) = 0 THEN <<>>
    ELSE LET a == Split(argElems[1], "=")
         IN  IF Len(a) = 0 \/ a[1] = <<>> THEN argsOnly(Tail(argElems))
             ELSE <<a[1]>> \o argsOnly(Tail(argElems))

formatCompactArgs(argQuery) ==
    LET keys == argsOnly(Split(argQuery, "&"))
    IN  IF Len(keys) = 0 THEN <<>>
        ELSE Join([i \in 1..Len(keys) |-> keys[i] \o <<"=", ".", ".", ".">>], <<"&">>)

(***************************************************************************)
(* net/url and net helpers used by the field registry                      *)
(***************************************************************************)

\* the characters of the model's strings, in byte order
Alphabet == <<"&", ".", "/", "0", "1", "2", "3", "4", "5", "6", "7", "8", "9",
              ":", "=", "?", "A", "G", "T", "a", "b", "h", "j", "k", "r", "x">>

Ord(c) == CHOOSE i \in 1..Len(Alphabet) : Alphabet[i] = c

\* s < t in Go's string order (bytewise, a proper prefix first)
RECURSIVE StrLess(_, _)
StrLess(s, t) ==
    IF Len(t) = 0 THEN FALSE
    ELSE IF Len(s) = 0 THEN TRUE
    ELSE IF s[1] # t[1] THEN Ord(s[1]) < Ord(t[1])
    ELSE StrLess(Tail(s), Tail(t))

\* url.ParseQuery: the <<key, value>> pairs of a raw query, in order; an element is
\* cut at its first "=", an empty element is skipped
RECURSIVE parsePairs(_)
parsePairs(elems) ==
    IF Len(elems) = 0 THEN <<>>
    ELSE IF elems[1] = <<>> THEN parsePairs(Tail(elems))
    ELSE LET kv == Split(elems[1], "=")
             v  == Join(Tail(kv), <<"=">>)
         IN  <<(<<kv[1], v>>)>> \o parsePairs(Tail(elems))

ParseQuery(rawQuery) == parsePairs(Split(rawQuery, "&"))

\* pairs with one more pair put after every pair whose key is not greater (stable)
RECURSIVE insertPair(_, _)
insertPair(pairs, p) ==
    IF Len(pairs) = 0 THEN <<p>>
    ELSE IF StrLess(p[1], pairs[1][1]) THEN <<p>> \o pairs
    ELSE <<pairs[1]>> \o insertPair(Tail(pairs), p)

RECURSIVE sortPairs(_)
sortPairs(pairs) ==
    IF Len(pairs) = 0 THEN <<>>
    ELSE insertPair(sortPairs(SubSeq(pairs, 1, Len(pairs) - 1)), pairs[Len(pairs)])

\* url.Values.Encode: "key=value" for every value, keys sorted, joined with "&"
\* (url.QueryEscape leaves the letters and digits of the model's keys and values as they are)
Encode(form) ==
    LET sorted == sortPairs(form)
    IN  Join([i \in 1..Len(sorted) |-> sorted[i][1] \o <<"=">> \o sorted[i][2]], <<"&">>)

\* the host of net.SplitHostPort(hostport); "" when it returns an error
\* (no port, or too many colons)
SplitHostPort(hostport) ==
    LET parts == Split(hostport, ":")
    IN  IF Len(parts) = 2 THEN parts[1] ELSE <<>>

\* the package clock: timeNow() as decimal seconds, and time.Format(time.RFC3339)
timeNow == <<"1", "7">>

FormatRFC3339(t) == t \o <<"T", "0", "0", ":", "0", "0">>

(***************************************************************************)
(* Field registry                                                          *)
(***************************************************************************)

ReqTimeField  == "req_time"
IDField       == "req_id"
RemoteIPField == "req_remote_ip"
HostField     == "req_host"
URIField      == "req_uri"
ReqArgsField  == "req_args"
MethodField   == "req_method"
PathField     == "req_path"
BytesInField  == "req_bytes_in"
AuthField     == "req_auth_header"

DefaultRequestFields ==
    <<ReqTimeField, IDField, RemoteIPField, HostField, ReqArgsField,
      MethodField, PathField, BytesInField, AuthField>>

StatusField       == "res_status"
BytesOutField     == "res_bytes_out"
ResTimeField      == "res_time"
ContentTypeField  == "res_content_type"
LocationField     == "res_location"
LocationArgsField == "res_location_args"
LocationHostField == "res_location_host"

DefaultResponseFields ==
    <<StatusField, BytesOutField, ResTimeField, ContentTypeField,
      LocationArgsField, LocationHostField>>

NotSupported == <<"n", "o", "t", " ", "s", "u", "p", "p", "o", "r", "t", "e", "d">>

\* Config: RequestFields, ResponseFields, ResponseReqFields
Config(requestFields, responseFields, responseReqFields) ==
    [RequestFields |-> requestFields,
     ResponseFields |-> responseFields,
     ResponseReqFields |-> responseReqFields]

DefaultReqResConfig == Config(DefaultRequestFields, DefaultResponseFields, <<>>)

DefaultResponseOnlyConfig == Config(<<>>, DefaultResponseFields, DefaultRequestFields)

\* RequestField.computeValue(timeNow, req)
computeRequestValue(f, now, r) ==
    CASE f = ReqTimeField  -> FormatRFC3339(now)
      [] f = IDField       -> Get(r.Header, "X-Request-ID")
      [] f = RemoteIPField ->
            IF Get(r.Header, "X-Forwarded-For") # <<>> THEN Get(r.Header, "X-Forwarded-For")
            ELSE IF Get(r.Header, "X-Real-IP") # <<>> THEN Get(r.Header, "X-Real-IP")
            ELSE SplitHostPort(r.RemoteAddr)
      [] f = HostField     -> r.Host
      [] f = URIField      -> r.RequestURI
      [] f = ReqArgsField  -> formatCompactArgs(Encode(ParseQuery(r.RawQuery)))
      [] f = MethodField   -> r.Method
      [] f = PathField     -> IF r.Path = <<>> THEN <<"/">> ELSE r.Path
      [] f = BytesInField  ->
            IF Get(r.Header, "Content-Length") = <<>> THEN <<"0">>
            ELSE Get(r.Header, "Content-Length")
      [] f = AuthField     -> Get(r.Header, "Authorization")
      [] OTHER             -> NotSupported

\* ResponseField.computeValue(timeNow, res); res carries status, size and Header()
computeResponseValue(f, now, res) ==
    CASE f = StatusField       -> Itoa(res.status)
      [] f = BytesOutField     -> Itoa(res.size)
      [] f = ResTimeField      -> FormatRFC3339(now)
      [] f = ContentTypeField  -> Get(res.hdr, "Content-Type")
      [] f = LocationField     -> Get(res.hdr, "Location")
      [] f = LocationArgsField ->
            LET splittedQuery == Split(Get(res.hdr, "Location"), "?")
            IN  IF Len(splittedQuery) # 2 THEN <<>>
                ELSE formatCompactArgs(splittedQuery[2])
      [] f = LocationHostField ->
            LET splittedQuery == Split(Get(res.hdr, "Location"), "?")
            IN  IF Len(splittedQuery) < 1 THEN <<>> ELSE splittedQuery[1]
      [] OTHER                 -> NotSupported

(***************************************************************************)
(* The FieldLogger sink                                                    *)
(***************************************************************************)

\* Fields{}: a map with no key
NoFields == [k \in {} |-> <<>>]

\* the FieldLogger given to New: nothing attached
BaseLogger == [derived |-> FALSE, fields |-> NoFields]

\* what FieldLogger.WithFields(f) returns: a logger with f attached
WithFields(logger, f) == [derived |-> TRUE, fields |-> f @@ logger.fields]

\* the calls the sink receives; `by` names the function that makes the call
SinkWithFields(by, f) == [kind |-> "sink", op |-> "WithFields", by |-> by, fields |-> f]

SinkLog(by, logger, msg) ==
    [kind |-> "sink", op |-> "Log", by |-> by, msg |-> msg,
     derived |-> logger.derived, fields |-> logger.fields]

\* loops that keep the fields whose value is ""
RECURSIVE setFields_KeepEmpty(_, _, _)
setFields_KeepEmpty(f, keys, vals) ==
    IF Len(keys) = 0 THEN f
    ELSE setFields_KeepEmpty((keys[1] :> vals[1]) @@ f, Tail(keys), Tail(vals))

\* the loops of RequestHandler and log: f[string(field)] = v for every field whose
\* value v is not "", in order (a later field of the same name overwrites)
RECURSIVE setFields(_, _, _)
setFields(f, keys, vals) ==
    IF Len(keys) = 0 THEN f
    ELSE setFields(IF vals[1] = <<>> THEN f ELSE (keys[1] :> vals[1]) @@ f,
                   Tail(keys), Tail(vals))

requestValues(fields, r) ==
    [i \in 1..Len(fields) |-> computeRequestValue(fields[i], timeNow, r)]

\* a loop that drops the selectors computeValue has no case for
responseValues_UnknownEmpty(fields, res) ==
    [i \in 1..Len(fields) |->
        IF fields[i] \in {DefaultResponseFields[j] : j \in 1..Len(DefaultResponseFields)}
                         \cup {LocationField}
        THEN computeResponseValue(fields[i], timeNow, res)
        ELSE <<>>]

\* a loop that falls back on the request's host for a response without Location
responseValues_HostFromRequest(fields, res) ==
    [i \in 1..Len(fields) |->
        IF fields[i] = LocationHostField /\ Get(res.hdr, "Location") = <<>>
        THEN res.req.Host
        ELSE computeResponseValue(fields[i], timeNow, res)]

responseValues(fields, res) ==
    [i \in 1..Len(fields) |-> computeResponseValue(fields[i], timeNow, res)]

ReceivedMsg    == "Received HTTP request"
RespondingMsg  == "Responding to HTTP request"
RedirectingMsg == "Redirecting HTTP request"

(***************************************************************************)
(* Response observer.  The operators below take the program state s as a   *)
(* record [cfg, req, hdr, status, size, committed, logged, events] and     *)
(* return the state after the call.                                        *)
(***************************************************************************)

AppJSON == <<"a", "p", "p", "l", "i", "c", "a", "t", "i", "o", "n", "/", "j", "s", "o", "n">>

AppJSONUTF8 == <<"a", "p", "p", "l", "i", "c", "a", "t", "i", "o", "n", "/", "j", "s", "o", "n", ";", "c", "h", "a", "r", "s", "e", "t", "=", "U", "T", "F", "-", "8">>

\* responseLogger.parseJSON: a placeholder, returns r.logger
parseJSON(s, b) == BaseLogger

\* responseLogger.parseBody
parseBody(s, b) ==
    IF Get(s.hdr, "Content-Type") \in {AppJSON, AppJSONUTF8} THEN parseJSON(s, b)
    ELSE BaseLogger

\* a completion record built from the response fields alone
completionFields_NoReqFields(s) ==
    setFields(NoFields, s.cfg.ResponseFields, responseValues(s.cfg.ResponseFields, s))

\* responseLogger.log, the two loops: the Fields of the completion record
completionFields(s) ==
    setFields(setFields(NoFields, s.cfg.ResponseReqFields,
                        requestValues(s.cfg.ResponseReqFields, s.req)),
              s.cfg.ResponseFields, responseValues(s.cfg.ResponseFields, s))

\* a message chosen by the status code instead of the Location header
completionMsg_ByStatus(s) ==
    IF s.status \in 300..399 THEN RedirectingMsg ELSE RespondingMsg

\* responseLogger.log, the final branch: the message of the completion record
completionMsg(s) ==
    IF Get(s.hdr, "Location") # <<>> THEN RedirectingMsg ELSE RespondingMsg

\* responseLogger.log past its guard: parse the body, build the record, hand it over
emit(s, b) ==
    LET logger0 == parseBody(s, b)
        f == completionFields(s)
        attach == DOMAIN f # {}
        logger == IF attach THEN WithFields(logger0, f) ELSE logger0
    IN  [s EXCEPT !.events =
            (IF attach THEN Append(@, SinkWithFields("log", f)) ELSE @)
            \o <<SinkLog("log", logger, completionMsg(s))>>]

\* a log that emits on every call
log_NoGuard(s, b) == emit([s EXCEPT !.logged = TRUE], b)

\* responseLogger.log
log(s, b) ==
    IF s.logged THEN s
    ELSE emit([s EXCEPT !.logged = TRUE], b)

\* the call the underlying writer receives on a header commit, with the header map
\* it sends
WriterWriteHeader(code, h) == [kind |-> "writer", op |-> "WriteHeader", code |-> code, hdr |-> h]

\* a WriteHeader that leaves every emission to Write
WriteHeader_NoRedirectLog(s, code) ==
    IF s.committed THEN s
    ELSE [s EXCEPT !.status = code,
                   !.events = Append(@, WriterWriteHeader(code, s.hdr)),
                   !.committed = TRUE]

\* a WriteHeader that emits on every commit, redirect or not
WriteHeader_AlwaysLogs(s, code) ==
    IF s.committed THEN s
    ELSE log([s EXCEPT !.status = code,
                       !.events = Append(@, WriterWriteHeader(code, s.hdr)),
                       !.committed = TRUE], <<>>)

\* a WriteHeader that emits before it forwards the status
WriteHeader_LogsBeforeForward(s, code) ==
    IF s.committed THEN s
    ELSE LET s1 == [s EXCEPT !.status = code, !.committed = TRUE]
             s2 == IF Get(s1.hdr, "Location") # <<>> THEN log(s1, <<>>) ELSE s1
         IN  [s2 EXCEPT !.events = Append(@, WriterWriteHeader(code, s.hdr))]

\* a WriteHeader that does not record the commit
WriteHeader_ForgetsCommitted(s, code) ==
    IF s.committed THEN s
    ELSE LET s1 == [s EXCEPT !.status = code,
                             !.events = Append(@, WriterWriteHeader(code, s.hdr))]
         IN  IF Get(s1.hdr, "Location") # <<>> THEN log(s1, <<>>) ELSE s1

\* a WriteHeader without the committed check
WriteHeader_NoCommitGuard(s, code) ==
    LET s1 == [s EXCEPT !.status = code,
                        !.events = Append(@, WriterWriteHeader(code, s.hdr)),
                        !.committed = TRUE]
    IN  IF Get(s1.hdr, "Location") # <<>> THEN log(s1, <<>>) ELSE s1

\* responseLogger.WriteHeader
WriteHeader(s, code) ==
    IF s.committed THEN s
    ELSE LET s1 == [s EXCEPT !.status = code,
                             !.events = Append(@, WriterWriteHeader(code, s.hdr)),
                             !.committed = TRUE]
         IN  IF Get(s1.hdr, "Location") # <<>> THEN log(s1, <<>>) ELSE s1

\* http.StatusOK
StatusOK == 200

\* the call the underlying writer receives on a body write, and what it returned
WriterWrite(b, ret) == [kind |-> "writer", op |-> "Write", b |-> b, n |-> ret.n, err |-> ret.err]

\* a Write that commits the default status itself instead of calling WriteHeader
Write_InlineCommit(s, b, ret) ==
    LET s1 == IF ~s.committed
              THEN [s EXCEPT !.status = StatusOK,
                             !.events = Append(@, WriterWriteHeader(StatusOK, s.hdr)),
                             !.committed = TRUE]
              ELSE s
        s2 == [s1 EXCEPT !.events = Append(@, WriterWrite(b, ret)),
                         !.size = @ + ret.n]
    IN  [st |-> log(s2, b), n |-> ret.n, err |-> ret.err]

\* a Write that reports the whole slice written and hides the writer's error
Write_SwallowsError(s, b, ret) ==
    LET s1 == IF ~s.committed THEN WriteHeader(s, StatusOK) ELSE s
        s2 == [s1 EXCEPT !.events = Append(@, WriterWrite(b, ret)),
                         !.size = @ + ret.n]
    IN  [st |-> log(s2, b), n |-> Len(b), err |-> "nil"]

\* a Write that keeps an empty slice to itself once the record has been emitted
Write_SkipsEmptyAfterLog(s, b, ret) ==
    LET s1 == IF ~s.committed THEN WriteHeader(s, StatusOK) ELSE s
        s2 == [s1 EXCEPT !.events = Append(@, WriterWrite(b, ret)), !.size = @ + ret.n]
    IN  IF s1.logged /\ Len(b) = 0 THEN [st |-> s1, n |-> 0, err |-> "nil"]
        ELSE [st |-> log(s2, b), n |-> ret.n, err |-> ret.err]

\* a Write that emits before it forwards and counts the bytes
Write_LogsBeforeCount(s, b, ret) ==
    LET s1 == IF ~s.committed THEN WriteHeader(s, StatusOK) ELSE s
        s2 == log(s1, b)
    IN  [st |-> [s2 EXCEPT !.events = Append(@, WriterWrite(b, ret)),
                           !.size = @ + ret.n],
         n |-> ret.n, err |-> ret.err]

\* responseLogger.Write; ret is what r.writer.Write(b) returns.  The result is
\* [st, n, err]: the state after the call and the values returned to the caller.
Write(s, b, ret) ==
    LET s1 == IF ~s.committed THEN WriteHeader(s, StatusOK) ELSE s
        s2 == [s1 EXCEPT !.events = Append(@, WriterWrite(b, ret)),
                         !.size = @ + ret.n]
    IN  [st |-> log(s2, b), n |-> ret.n, err |-> ret.err]

(***************************************************************************)
(* Logger facade                                                           *)
(***************************************************************************)

\* a request phase that stays silent when no field has a value
RequestHandler_SilentWhenEmpty(s) ==
    LET f == setFields(NoFields, s.cfg.RequestFields,
                       requestValues(s.cfg.RequestFields, s.req))
    IN  IF DOMAIN f = {} THEN s
        ELSE [s EXCEPT !.events =
                 Append(@, SinkWithFields("RequestHandler", f))
                 \o <<SinkLog("RequestHandler", WithFields(BaseLogger, f), ReceivedMsg)>>]

\* the closure Logger.RequestHandler() returns, applied to one request
RequestHandler(s) ==
    IF Len(s.cfg.RequestFields) = 0 THEN s
    ELSE LET f == setFields(NoFields, s.cfg.RequestFields,
                            requestValues(s.cfg.RequestFields, s.req))
             attach == DOMAIN f # {}
             logger == IF attach THEN WithFields(BaseLogger, f) ELSE BaseLogger
         IN  [s EXCEPT !.events =
                 (IF attach THEN Append(@, SinkWithFields("RequestHandler", f)) ELSE @)
                 \o <<SinkLog("RequestHandler", logger, ReceivedMsg)>>]

\* a WrapResponse that emits as soon as the observer exists
WrapResponse_Logs(s) ==
    log([s EXCEPT !.status = 0, !.size = 0, !.committed = FALSE, !.logged = FALSE], <<>>)

\* Logger.WrapResponse: a responseLogger with zero status, size, committed, logged
WrapResponse(s) ==
    [s EXCEPT !.status = 0, !.size = 0, !.committed = FALSE, !.logged = FALSE]

(***************************************************************************)
(* Inputs                                                                  *)
(***************************************************************************)

Request(method, host, uri, remote, path, query, header) ==
    [Method |-> method, Host |-> host, RequestURI |-> uri, RemoteAddr |-> remote,
     Path |-> path, RawQuery |-> query, Header |-> header]

\* http.NewRequest("GET", "/a?b=1&a&=x", nil): no headers, no remote address
ReqTest ==
    Request(<<"G", "E", "T">>, <<>>, <<>>, <<>>, <<"/", "a">>,
            <<"b", "=", "1", "&", "a", "&", "=", "x">>, NoHeader)

\* a request received through a proxy, in absolute form with an empty path
ReqProxied ==
    Request(<<"G", "E", "T">>, <<"h">>, <<"h">>, <<"9", ":", "1">>, <<>>, <<>>,
            ("X-Request-ID" :> <<"r", "7">>) @@ ("X-Forwarded-For" :> <<"8">>) @@
            ("X-Real-IP" :> <<"7">>) @@ ("Content-Length" :> <<"5">>) @@
            ("Authorization" :> <<"k">>))

Requests == {ReqTest, ReqProxied}

\* Config{}
EmptyConfig == Config(<<>>, <<>>, <<>>)

\* fields that are empty for some requests and responses
SparseConfig == Config(<<IDField, AuthField>>, <<LocationField, ContentTypeField>>, <<IDField>>)

\* selectors the registry does not know
CustomConfig ==
    Config(<<"req_custom", URIField>>, <<"res_custom", StatusField>>, <<"req_other">>)

Configs == {DefaultReqResConfig, DefaultResponseOnlyConfig, EmptyConfig,
            SparseConfig, CustomConfig}

\* the status codes a handler commits
Codes == {200, 302}

\* the Location and Content-Type values a handler sets
HeaderValues ==
    [k \in {"Location", "Content-Type"} |->
        IF k = "Location" THEN {<<"/", "h", "?", "a", "=", "1", "&", "b", "=", "2">>, <<"/", "h">>} ELSE {AppJSON}]

\* the byte slices a handler writes
Bodies == {<<>>, <<"x", "y">>}

\* what the underlying writer's Write(b) can return (io.Writer): all of b and no
\* error, or fewer bytes and an error
WriterReturns(b) ==
    {[n |-> Len(b), err |-> "nil"]} \cup {[n |-> k, err |-> "EPIPE"] : k \in 0..(Len(b) - 1)}

(***************************************************************************)
(* State machine: one request served by the middleware of                  *)
(* RegisterMiddleware, with a handler that may set headers, commit a       *)
(* status and write, in any order.                                         *)
(***************************************************************************)

\* the program state as the record the operators above work on
St == [cfg |-> cfg, req |-> req, hdr |-> hdr, status |-> status, size |-> size,
       committed |-> committed, logged |-> logged, events |-> events]

\* the state the next step leaves
Becomes(s) ==
    /\ hdr' = s.hdr
    /\ status' = s.status
    /\ size' = s.size
    /\ committed' = s.committed
    /\ logged' = s.logged
    /\ events' = s.events

Call(op, arg) == [kind |-> "call", op |-> op, arg |-> arg]

Return(op, n, err) == [kind |-> "return", op |-> op, n |-> n, err |-> err]

\* the calls the handler has made on the observer
NumCalls == Len(SelectSeq(events, LAMBDA e : e.kind = "call"))

Init ==
    /\ cfg \in Configs
    /\ req \in Requests
    /\ pc = "request"
    /\ hdr = NoHeader
    /\ status = 0
    /\ size = 0
    /\ committed = FALSE
    /\ logged = FALSE
    /\ events = <<>>

\* l.RequestHandler()(w, r)
ServeRequestPhase ==
    /\ pc = "request"
    /\ Becomes(RequestHandler(St))
    /\ pc' = "wrap"
    /\ UNCHANGED <<cfg, req>>

\* l.WrapResponse(w, r), then h.ServeHTTP starts the handler
ServeWrapResponse ==
    /\ pc = "wrap"
    /\ Becomes(WrapResponse(St))
    /\ pc' = "handler"
    /\ UNCHANGED <<cfg, req>>

\* the handler: w.Header().Set(k, v)
HandlerSetHeader ==
    /\ pc = "handler"
    /\ \E k \in DOMAIN HeaderValues : \E v \in HeaderValues[k] :
          hdr' = (k :> v) @@ hdr
    /\ UNCHANGED <<cfg, req, pc, status, size, committed, logged, events>>

\* the handler: w.WriteHeader(code)
HandlerWriteHeader ==
    /\ pc = "handler"
    /\ NumCalls < MaxCalls
    /\ \E code \in Codes :
          LET s0 == [St EXCEPT !.events = Append(@, Call("WriteHeader", code))]
              s1 == WriteHeader(s0, code)
          IN  Becomes([s1 EXCEPT !.events = Append(@, Return("WriteHeader", 0, "nil"))])
    /\ UNCHANGED <<cfg, req, pc>>

\* the handler: n, err := w.Write(b)
HandlerWrite ==
    /\ pc = "handler"
    /\ NumCalls < MaxCalls
    /\ \E b \in Bodies : \E ret \in WriterReturns(b) :
          LET s0 == [St EXCEPT !.events = Append(@, Call("Write", b))]
              r  == Write(s0, b, ret)
          IN  Becomes([r.st EXCEPT !.events = Append(@, Return("Write", r.n, r.err))])
    /\ UNCHANGED <<cfg, req, pc>>

\* the handler returns: the request is served
HandlerReturn ==
    /\ pc = "handler"
    /\ pc' = "done"
    /\ UNCHANGED <<cfg, req, hdr, status, size, committed, logged, events>>

Next ==
    \/ ServeRequestPhase
    \/ ServeWrapResponse
    \/ HandlerSetHeader
    \/ HandlerWriteHeader
    \/ HandlerWrite
    \/ HandlerReturn

Spec == Init /\ [][Next]_vars

(***************************************************************************)
(* The field registry and the formatter on their own: one input, one       *)
(* application of formatCompactArgs or of RequestField.computeValue         *)
(***************************************************************************)

\* Length of the longest query string given to the formatter.
MaxQueryLen == 6

\* every string of at most n characters drawn from chars
Strings(chars, n) == UNION {[1..k -> chars] : k \in 0..n}

Queries == Strings({"a", "b", "=", "&"}, MaxQueryLen)

\* Content-Length values of a request built by hand: none, a number, not a number
ContentLengths == {<<>>, <<"5">>, <<"1", "2">>, <<"x">>, <<"1", "x">>}

RegistryRequests ==
    {Request(<<"G", "E", "T">>, <<>>, <<>>, <<>>, <<"/">>, q, NoHeader) : q \in Queries}
    \cup {Request(<<"G", "E", "T">>, <<>>, <<>>, <<>>, <<"/">>, <<>>,
                  ("Content-Length" :> v)) : v \in ContentLengths}

RegistryFields == {ReqArgsField, BytesInField, PathField, "req_custom"}

\* one application of a function of the registry: its name, its argument, its result
Applied(op, arg, out) == [kind |-> "apply", op |-> op, arg |-> arg, out |-> out]

InitRegistry ==
    /\ cfg = EmptyConfig
    /\ req \in RegistryRequests
    /\ pc = "input"
    /\ hdr = NoHeader
    /\ status = 0
    /\ size = 0
    /\ committed = FALSE
    /\ logged = FALSE
    /\ events = <<>>

\* formatCompactArgs(argQuery)
ApplyFormatCompactArgs ==
    /\ pc = "input"
    /\ events' = <<Applied("formatCompactArgs", req.RawQuery,
                           formatCompactArgs(req.RawQuery))>>
    /\ pc' = "output"
    /\ UNCHANGED <<cfg, req, hdr, status, size, committed, logged>>

\* f.computeValue(timeNow(), r)
ApplyComputeValue ==
    /\ pc = "input"
    /\ \E f \in RegistryFields :
          events' = <<Applied("computeValue", f, computeRequestValue(f, timeNow, req))>>
    /\ pc' = "output"
    /\ UNCHANGED <<cfg, req, hdr, status, size, committed, logged>>

NextRegistry ==
    \/ ApplyFormatCompactArgs
    \/ ApplyComputeValue

SpecRegistry == InitRegistry /\ [][NextRegistry]_vars

(***************************************************************************)
(* Two requests served at once through one Logger.  Each request has its   *)
(* own underlying writer and its own responseLogger, made by WrapResponse; *)
(* the Logger's cfg and its FieldLogger are shared.  Here req, pc, hdr,    *)
(* status, size, committed and logged hold one value per observer;         *)
(* events[i] is the trace of observer i, and events[Sink] is what the      *)
(* shared FieldLogger receives from both, in order, each call marked with  *)
(* the observer that made it.  The observers have no field in common and   *)
(* cfg is only read, so a call on one observer is taken as one step        *)
(* between the calls on the other.                                         *)
(***************************************************************************)

Observers == {1, 2}

\* the index of the shared FieldLogger's trace in events
Sink == 0

\* Number of WriteHeader/Write calls each of the two handlers makes.
MaxCallsEach == 2

IsoConfigs == {DefaultResponseOnlyConfig, SparseConfig}

\* the Location a handler sets, the byte slice it writes
IsoLocation == <<"/", "h">>

IsoBody == <<"x">>

\* the shared flag of a Logger that kept logged for all its observers
Observer_SharedLogged(i) ==
    [cfg |-> cfg, req |-> req[i], hdr |-> hdr[i], status |-> status[i],
     size |-> size[i], committed |-> committed[i],
     logged |-> \E j \in Observers : logged[j], events |-> events[i]]

\* the responseLogger of request i with its writer's header map and its trace, as
\* the record the operators of the observer take
Observer(i) ==
    [cfg |-> cfg, req |-> req[i], hdr |-> hdr[i], status |-> status[i],
     size |-> size[i], committed |-> committed[i], logged |-> logged[i],
     events |-> events[i]]

\* a call the shared sink receives, marked with the observer that made it
Tagged(i, e) == [obs |-> i] @@ e

\* observer i becomes s; the calls it made on the sink on the way reach the sink
ObserverBecomes(i, s) ==
    /\ hdr' = [hdr EXCEPT ![i] = s.hdr]
    /\ status' = [status EXCEPT ![i] = s.status]
    /\ size' = [size EXCEPT ![i] = s.size]
    /\ committed' = [committed EXCEPT ![i] = s.committed]
    /\ logged' = [logged EXCEPT ![i] = s.logged]
    /\ LET new  == SubSeq(s.events, Len(events[i]) + 1, Len(s.events))
           sunk == SelectSeq(new, LAMBDA e : e.kind = "sink")
       IN  events' = [events EXCEPT ![i] = s.events,
                                    ![Sink] = @ \o [k \in 1..Len(sunk) |->
                                                      Tagged(i, sunk[k])]]

\* the calls handler i has made on its observer
NumCallsOf(i) == Len(SelectSeq(events[i], LAMBDA e : e.kind = "call"))

InitIsolation ==
    /\ cfg \in IsoConfigs
    /\ req = <<ReqTest, ReqProxied>>
    /\ pc = [i \in Observers |-> "wrap"]
    /\ hdr = [i \in Observers |-> NoHeader]
    /\ status = [i \in Observers |-> 0]
    /\ size = [i \in Observers |-> 0]
    /\ committed = [i \in Observers |-> FALSE]
    /\ logged = [i \in Observers |-> FALSE]
    /\ events = [i \in Observers \cup {Sink} |-> <<>>]

\* l.WrapResponse(w, r) for request i, then its handler starts
IsoWrapResponse(i) ==
    /\ pc[i] = "wrap"
    /\ ObserverBecomes(i, WrapResponse(Observer(i)))
    /\ pc' = [pc EXCEPT ![i] = "handler"]
    /\ UNCHANGED <<cfg, req>>

\* handler i: w.Header().Set("Location", ...)
IsoSetHeader(i) ==
    /\ pc[i] = "handler"
    /\ hdr' = [hdr EXCEPT ![i] = ("Location" :> IsoLocation) @@ @]
    /\ UNCHANGED <<cfg, req, pc, status, size, committed, logged, events>>

\* handler i: w.WriteHeader(code)
IsoWriteHeader(i) ==
    /\ pc[i] = "handler"
    /\ NumCallsOf(i) < MaxCallsEach
    /\ \E code \in Codes :
          LET s0 == [Observer(i) EXCEPT !.events = Append(@, Call("WriteHeader", code))]
              s1 == WriteHeader(s0, code)
          IN  ObserverBecomes(i, [s1 EXCEPT !.events =
                                    Append(@, Return("WriteHeader", 0, "nil"))])
    /\ UNCHANGED <<cfg, req, pc>>

\* handler i: w.Write(b), the underlying writer taking all of b
IsoWrite(i) ==
    /\ pc[i] = "handler"
    /\ NumCallsOf(i) < MaxCallsEach
    /\ LET s0 == [Observer(i) EXCEPT !.events = Append(@, Call("Write", IsoBody))]
           r  == Write(s0, IsoBody, [n |-> Len(IsoBody), err |-> "nil"])
       IN  ObserverBecomes(i, [r.st EXCEPT !.events =
                                 Append(@, Return("Write", r.n, r.err))])
    /\ UNCHANGED <<cfg, req, pc>>

\* handler i returns
IsoReturn(i) ==
    /\ pc[i] = "handler"
    /\ pc' = [pc EXCEPT ![i] = "done"]
    /\ UNCHANGED <<cfg, req, hdr, status, size, committed, logged, events>>

NextIsolation ==
    \E i \in Observers :
        \/ IsoWrapResponse(i)
        \/ IsoSetHeader(i)
        \/ IsoWriteHeader(i)
        \/ IsoWrite(i)
        \/ IsoReturn(i)

SpecIsolation == InitIsolation /\ [][NextIsolation]_vars

(***************************************************************************)
(* Views of the event trace                                                *)
(***************************************************************************)

IsCall(e, op) == e.kind = "call" /\ e.op = op

IsWriter(e, op) == e.kind = "writer" /\ e.op = op

IsSinkLog(e) == e.kind = "sink" /\ e.op = "Log"

IsCompletionLog(e) == IsSinkLog(e) /\ e.by = "log"

\* every Log call the sink has received, and those made by responseLogger.log
SinkLogs == SelectSeq(events, IsSinkLog)

CompletionLogs == SelectSeq(events, IsCompletionLog)

NumCompletionLogs == Len(CompletionLogs)

\* the calls the handler has made, in order
Calls == SelectSeq(events, LAMBDA e : e.kind = "call")

NumWriteCalls == Len(SelectSeq(events, LAMBDA e : IsCall(e, "Write")))

\* the header commit the underlying writer received carried a non-empty Location
RedirectCommit ==
    \E i \in 1..Len(events) :
        IsWriter(events[i], "WriteHeader") /\ Get(events[i].hdr, "Location") # <<>>

\* the events the step being taken appends to the trace
NewEvents == SubSeq(events', Len(events) + 1, Len(events'))

\* the step being taken is the handler's call of op on the observer
StepIs(op) == Len(events') > Len(events) /\ IsCall(events'[Len(events) + 1], op)

(***************************************************************************)
(* C1..C5: emission counting                                               *)
(***************************************************************************)

\* C1: when the handler returns after any non-empty sequence of WriteHeader and Write
\* calls on one observer, the sink has received exactly one completion Log call.
C1_ExactlyOnceAfterAnyCalls ==
    (pc = "done" /\ NumCalls >= 1) => NumCompletionLogs = 1

\* C2: in every reachable state the observer has made 0 or 1 completion Log calls,
\* however many WriteHeader and Write calls were made and whenever Location was set.
C2_AtMostOnce == NumCompletionLogs \in {0, 1}

\* C2 witness: one emission after three calls, two of them body writes, with the
\* Location header set only after the commit.
C2_Witness ==
    /\ NumCalls = 3
    /\ NumWriteCalls >= 2
    /\ NumCompletionLogs = 1
    /\ ~RedirectCommit
    /\ Get(hdr, "Location") # <<>>

\* C3: a WriteHeader call on an uncommitted observer whose headers carry a non-empty
\* Location emits the completion log within that call, the underlying writer having
\* received no Write; a Write call on a logged observer emits nothing more.
C3_RedirectShortCircuit ==
    [][ /\ (StepIs("WriteHeader") /\ ~committed /\ Get(hdr, "Location") # <<>>)
            => /\ logged'
               /\ NumCompletionLogs' = 1
               /\ \E i \in 1..Len(NewEvents) : IsCompletionLog(NewEvents[i])
               /\ \A i \in 1..Len(events') : ~IsWriter(events'[i], "Write")
        /\ (StepIs("Write") /\ logged)
            => /\ NumCompletionLogs' = NumCompletionLogs
               /\ \A i \in 1..Len(NewEvents) : NewEvents[i].kind # "sink"
      ]_vars

\* C3 witness: the first call was a WriteHeader that committed a redirect, a Write
\* followed, and the sink holds the one emission made before that Write.
C3_Witness ==
    /\ NumCalls >= 2
    /\ IsCall(Calls[1], "WriteHeader")
    /\ RedirectCommit
    /\ NumWriteCalls >= 1
    /\ NumCompletionLogs = 1
    /\ CompletionLogs[1].msg = RedirectingMsg

\* C4: on an uncommitted observer, for every header state, byte slice b and result
\* of the underlying write, Write(b) leaves the same observer state, the same calls
\* to the underlying writer, the same emission and the same return values as
\* WriteHeader(200) followed by Write(b).
C4_DefaultStatusEquivalence ==
    (pc = "handler" /\ ~committed) =>
        \A b \in Bodies : \A ret \in WriterReturns(b) :
            Write(St, b, ret) = Write(WriteHeader(St, StatusOK), b, ret)

\* C4 witness: the handler's first call was a Write made while Location was set: the
\* implicit commit of 200 reached the writer and the emission reports no bytes.
C4_Witness ==
    /\ NumCalls = 1
    /\ IsCall(Calls[1], "Write")
    /\ Calls[1].arg # <<>>
    /\ RedirectCommit
    /\ status = StatusOK
    /\ size > 0
    /\ NumCompletionLogs = 1
    /\ cfg = DefaultReqResConfig
    /\ CompletionLogs[1].fields[BytesOutField] = <<"0">>

\* C5: while the handler has made no WriteHeader and no Write call on the observer,
\* the sink has received no completion Log call.
C5_NoWriteNoCompletionLog == NumCalls = 0 => NumCompletionLogs = 0

\* C5 witness: the handler returned having set headers and written nothing.
C5_Witness ==
    /\ pc = "done"
    /\ NumCalls = 0
    /\ Get(hdr, "Location") # <<>>
    /\ NumCompletionLogs = 0

(***************************************************************************)
(* C6..C10: what is emitted, and what Write returns                        *)
(***************************************************************************)

Range(seq) == {seq[i] : i \in 1..Len(seq)}

\* the selectors among keys whose value is not "", each with its value
Kept(keys, Val(_)) == [k \in {j \in keys : Val(j) # <<>>} |-> Val(k)]

\* the record of the request phase: RequestFields over the request
ExpectedRequestRecord ==
    Kept(Range(cfg.RequestFields), LAMBDA k : computeRequestValue(k, timeNow, req))

\* the record of a completion emitted in state s: ResponseReqFields over the request
\* and ResponseFields over the observer
ExpectedCompletionRecord(s) ==
    Kept(Range(s.cfg.ResponseReqFields) \cup Range(s.cfg.ResponseFields),
         LAMBDA k : IF k \in Range(s.cfg.ResponseFields)
                    THEN computeResponseValue(k, timeNow, s)
                    ELSE computeRequestValue(k, timeNow, s.req))

\* the observer as it is when the step being taken appends NewEvents[i]: the status is
\* committed, and size counts the bytes of the underlying Write only if that came first
StateAt(i) ==
    [St' EXCEPT !.size =
        IF \E j \in 1..(i - 1) : IsWriter(NewEvents[j], "Write") THEN size' ELSE size]

\* C6: a completion emission carries "Redirecting HTTP request" exactly when the
\* Location header is non-empty as it is emitted, and "Responding to HTTP request"
\* otherwise; it never carries another message.
C6_MessageRouting ==
    [][ \A i \in 1..Len(NewEvents) :
            IsCompletionLog(NewEvents[i]) =>
                /\ NewEvents[i].msg \in {RedirectingMsg, RespondingMsg}
                /\ NewEvents[i].msg = RedirectingMsg <=> Get(hdr, "Location") # <<>>
      ]_vars

\* C6 witness: the emission said "Responding" because Location was empty then, though
\* the handler has set a Location since.
C6_Witness ==
    /\ NumCompletionLogs = 1
    /\ CompletionLogs[1].msg = RespondingMsg
    /\ Get(hdr, "Location") # <<>>

\* C7: every record handed to the sink, by the request phase and by the completion
\* emission, holds exactly the configured selectors whose computed value is not "",
\* each with that value: no key maps to "", and when every configured field is ""
\* WithFields is not called and Log is called on the logger without fields.
C7_EmptyFieldOmission ==
    [][ \A i \in 1..Len(NewEvents) :
            NewEvents[i].kind = "sink" =>
                LET e == NewEvents[i]
                    expected == IF e.by = "log" THEN ExpectedCompletionRecord(StateAt(i))
                                ELSE ExpectedRequestRecord
                IN  /\ e.fields = expected
                    /\ \A k \in DOMAIN e.fields : e.fields[k] # <<>>
                    /\ e.op = "WithFields" => DOMAIN e.fields # {}
                    /\ e.op = "Log" =>
                          /\ e.derived <=> DOMAIN expected # {}
                          /\ e.derived <=>
                                (i > 1 /\ NewEvents[i - 1].kind = "sink"
                                       /\ NewEvents[i - 1].op = "WithFields")
      ]_vars

\* C7 witness: every configured field was "" in both phases: the sink received two
\* Log calls, none on a logger with fields, and no WithFields call.
C7_Witness ==
    /\ cfg = SparseConfig
    /\ Len(SinkLogs) = 2
    /\ SinkLogs[1].by = "RequestHandler" /\ ~SinkLogs[1].derived
    /\ SinkLogs[2].by = "log" /\ ~SinkLogs[2].derived
    /\ \A i \in 1..Len(events) : ~(events[i].kind = "sink" /\ events[i].op = "WithFields")

\* C8: the request phase makes no call to the sink when the configuration has no
\* RequestFields; otherwise it makes exactly one Log("Received HTTP request") call,
\* its last call, and when every configured field is "" that is its only call and it
\* is made on the logger without fields.
C8_RequestPhase ==
    [][ (pc = "request" /\ pc' # "request") =>
            IF Len(cfg.RequestFields) = 0 THEN events' = events
            ELSE LET logs == SelectSeq(NewEvents, IsSinkLog)
                 IN  /\ Len(logs) = 1
                     /\ logs[1].msg = ReceivedMsg
                     /\ NewEvents[Len(NewEvents)] = logs[1]
                     /\ (\A i \in 1..Len(cfg.RequestFields) :
                            computeRequestValue(cfg.RequestFields[i], timeNow, req) = <<>>)
                        => /\ Len(NewEvents) = 1
                           /\ ~logs[1].derived
                           /\ logs[1].fields = NoFields
      ]_vars

\* C8 witness: RequestFields were configured, all of them were "", and the sink
\* received the one Log call and nothing else.
C8_Witness ==
    /\ pc = "wrap"
    /\ Len(cfg.RequestFields) > 0
    /\ Len(events) = 1
    /\ IsSinkLog(events[1])
    /\ events[1].msg = ReceivedMsg
    /\ ~events[1].derived

\* C9: through the middleware, with DefaultReqResConfig the sink receives "Received
\* HTTP request" before the observer exists and before any call of the handler, and
\* once a handler that wrote a body has returned it has received exactly two Log
\* calls, the second a completion whose record holds response keys only; with
\* DefaultResponseOnlyConfig it has then received exactly one Log call, a completion
\* whose record holds every request field whose value is not "".
C9_PresetsThroughMiddleware ==
    /\ (cfg = DefaultReqResConfig /\ pc # "request") =>
            /\ Len(SinkLogs) >= 1
            /\ SinkLogs[1].msg = ReceivedMsg
            /\ SinkLogs[1].by = "RequestHandler"
            /\ \A i \in 1..Len(events) :
                  events[i].kind = "call" =>
                      \E j \in 1..(i - 1) : IsSinkLog(events[j]) /\ events[j].msg = ReceivedMsg
    /\ (pc = "done" /\ NumWriteCalls >= 1) =>
            /\ cfg = DefaultReqResConfig =>
                  /\ Len(SinkLogs) = 2
                  /\ SinkLogs[1].msg = ReceivedMsg
                  /\ IsCompletionLog(SinkLogs[2])
                  /\ DOMAIN SinkLogs[2].fields # {}
                  /\ DOMAIN SinkLogs[2].fields \subseteq Range(DefaultResponseFields)
            /\ cfg = DefaultResponseOnlyConfig =>
                  /\ Len(SinkLogs) = 1
                  /\ IsCompletionLog(SinkLogs[1])
                  /\ \A k \in Range(DefaultRequestFields) :
                        LET v == computeRequestValue(k, timeNow, req)
                        IN  v # <<>> =>
                               /\ k \in DOMAIN SinkLogs[1].fields
                               /\ SinkLogs[1].fields[k] = v

\* C9 witness: a proxied request served under DefaultResponseOnlyConfig by a handler
\* that wrote a body: one Log call, whose record carries the request id.
C9_Witness ==
    /\ pc = "done"
    /\ cfg = DefaultResponseOnlyConfig
    /\ req = ReqProxied
    /\ NumWriteCalls >= 1
    /\ Len(SinkLogs) = 1
    /\ IDField \in DOMAIN SinkLogs[1].fields

\* C10: every Write(b) call forwards b to the underlying writer once, returns exactly
\* the (n, err) the underlying Write returned, and adds exactly n to the observer's
\* size, also when err is not nil.
C10_WriteErrorPropagation ==
    [][ StepIs("Write") =>
            LET ws == SelectSeq(NewEvents, LAMBDA e : IsWriter(e, "Write"))
                r  == events'[Len(events')]
            IN  /\ Len(ws) = 1
                /\ ws[1].b = NewEvents[1].arg
                /\ r.kind = "return"
                /\ r.n = ws[1].n
                /\ r.err = ws[1].err
                /\ size' = size + ws[1].n
      ]_vars

\* C10 witness: a Write returned an error after part of the slice, after an earlier
\* Write had succeeded; size counts both.
C10_Witness ==
    /\ NumWriteCalls >= 2
    /\ events[Len(events)].kind = "return"
    /\ events[Len(events)].op = "Write"
    /\ events[Len(events)].err # "nil"
    /\ events[Len(events)].n > 0
    /\ size > events[Len(events)].n

(***************************************************************************)
(* C11: the values of the completion record                                *)
(***************************************************************************)

\* the status the handler committed first: the code of its first call when that is a
\* WriteHeader, the default when it is a Write
FirstStatus == IF IsCall(Calls[1], "WriteHeader") THEN Calls[1].arg ELSE StatusOK

\* the calls the underlying writer has received, in order
WriterCalls == SelectSeq(events, LAMBDA e : e.kind = "writer")

WriterWrites == SelectSeq(events, LAMBDA e : IsWriter(e, "Write"))

\* C11: in the completion record res_status is the code of the first WriteHeader call
\* (200 when the first call is a Write) and res_bytes_out is the byte count at the
\* emission: 0 when the header commit carried a Location (the emission is made inside
\* WriteHeader, whatever is written afterwards), the n of the first Write otherwise.
C11_CompletionValues ==
    NumCompletionLogs >= 1 =>
        LET f == CompletionLogs[1].fields
        IN  /\ StatusField \in Range(cfg.ResponseFields) =>
                  f[StatusField] = Itoa(FirstStatus)
            /\ BytesOutField \in Range(cfg.ResponseFields) =>
                  f[BytesOutField] = Itoa(IF RedirectCommit THEN 0 ELSE WriterWrites[1].n)

\* C11 witness: a redirect committed with 302, then a body of two bytes written: the
\* record reports 302 and no bytes, the observer has counted two.
C11_Witness ==
    /\ NumCompletionLogs = 1
    /\ cfg = DefaultReqResConfig
    /\ CompletionLogs[1].fields[StatusField] = <<"3", "0", "2">>
    /\ CompletionLogs[1].fields[BytesOutField] = <<"0">>
    /\ size = 2

(***************************************************************************)
(* C12, C13: the compact-args formatter (under SpecRegistry)               *)
(***************************************************************************)

\* the formatter has been applied: its argument and its result
Formatted == pc = "output" /\ events[1].op = "formatCompactArgs"

\* key=value elements with a non-empty key: values may be empty or hold an "="
ArgKeys == {<<"a">>, <<"b">>, <<"a", "b">>}

ArgValues == {<<>>, <<"a">>, <<"b">>, <<"=">>, <<"b", "=">>}

ArgPairSeqs == UNION {[1..k -> ArgKeys \X ArgValues] : k \in 1..2}

\* a query string put together from key=value elements, and its compact form
KeyValueForms ==
    {<<Join([i \in 1..Len(kvs) |-> kvs[i][1] \o <<"=">> \o kvs[i][2]], <<"&">>),
       Join([i \in 1..Len(kvs) |-> kvs[i][1] \o <<"=", ".", ".", ".">>], <<"&">>)>> :
        kvs \in ArgPairSeqs}

\* some element of q starts with a character of a key
HasKeyedElement(q) ==
    \E i \in 1..Len(q) : q[i] \notin {"&", "="} /\ (i = 1 \/ q[i - 1] = "&")

C13_BareKeyKept ==
    (Formatted /\ \A i \in 1..Len(events[1].arg) : events[1].arg[i] # "=") =>
        events[1].out =
            Join(SelectSeq(Split(events[1].arg, "&"), LAMBDA e : e # <<>>), <<"&">>)

(***************************************************************************)
(* C14: selectors the registry does not know                               *)
(***************************************************************************)

KnownRequestFields == Range(DefaultRequestFields) \cup {URIField}

KnownResponseFields == Range(DefaultResponseFields) \cup {LocationField}

\* the selectors of a list that have no case in the computeValue of their type
UnknownRequest(fields) == Range(fields) \ KnownRequestFields

UnknownResponse(fields) == Range(fields) \ KnownResponseFields

\* C14: a configured selector that matches no known one never makes a phase fail: the
\* request phase and the completion phase still emit, and every record they hand to
\* the sink holds the selector under its own key with the value "not supported".
C14_UnknownSelector ==
    /\ (pc # "request" /\ cfg.RequestFields # <<>>) =>
          Len(SinkLogs) >= 1 /\ SinkLogs[1].by = "RequestHandler"
    /\ \A i \in 1..Len(events) :
          LET e == events[i]
          IN  e.kind = "sink" =>
                 \A k \in (IF e.by = "RequestHandler"
                           THEN UnknownRequest(cfg.RequestFields)
                           ELSE UnknownResponse(cfg.ResponseFields)
                                \cup UnknownRequest(cfg.ResponseReqFields)) :
                    k \in DOMAIN e.fields /\ e.fields[k] = NotSupported

\* C14 witness: under CustomConfig both records were emitted and hold the three custom
\* selectors with "not supported"
C14_Witness ==
    /\ cfg = CustomConfig
    /\ NumCompletionLogs = 1
    /\ SinkLogs[1].fields["req_custom"] = NotSupported
    /\ CompletionLogs[1].fields["res_custom"] = NotSupported
    /\ CompletionLogs[1].fields["req_other"] = NotSupported

(***************************************************************************)
(* C15: the default byte count (under SpecRegistry)                        *)
(***************************************************************************)

\* a decimal number: one digit or more, nothing else
IsNumber(v) == Len(v) >= 1 /\ \A i \in 1..Len(v) : v[i] \in Range(Digits)

\* C15: req_bytes_in computes to "0" whenever the Content-Length header of the request
\* is absent or is not a number; it is never the empty string (never omitted).
C15_DefaultByteCount ==
    (pc = "output" /\ events[1].op = "computeValue" /\ events[1].arg = BytesInField) =>
        /\ events[1].out # <<>>
        /\ ~IsNumber(Get(req.Header, "Content-Length")) => events[1].out = <<"0">>

(***************************************************************************)
(* C16: the fields derived from the Location header                        *)
(***************************************************************************)

LocationFields == {LocationField, LocationArgsField, LocationHostField}

\* the positions of "?" in a string
QuestionMarks(loc) == {i \in 1..Len(loc) : loc[i] = "?"}

\* what a record holds under a res_location* key for a non-empty Location: the header,
\* its part before the first "?", the compact form of its part after the only "?"
LocationValue(k, loc) ==
    LET qm == QuestionMarks(loc)
        p  == IF qm = {} THEN Len(loc) + 1 ELSE CHOOSE i \in qm : \A j \in qm : i <= j
    IN  CASE k = LocationField     -> loc
          [] k = LocationHostField -> SubSeq(loc, 1, p - 1)
          [] k = LocationArgsField ->
                IF Cardinality(qm) = 1
                THEN formatCompactArgs(SubSeq(loc, p + 1, Len(loc))) ELSE <<>>

\* C16: in a completion record the res_location* fields are computed from the Location
\* header of the response as it stands when the record is emitted, and from nothing
\* else; when that header is absent or empty the record has no res_location* key.
C16_RedirectFields ==
    [][\A i \in 1..Len(NewEvents) :
          IsCompletionLog(NewEvents[i]) =>
             LET loc == Get(hdr, "Location")
                 f   == NewEvents[i].fields
             IN  IF loc = <<>> THEN DOMAIN f \cap LocationFields = {}
                 ELSE \A k \in Range(cfg.ResponseFields) \cap LocationFields :
                         IF LocationValue(k, loc) = <<>> THEN k \notin DOMAIN f
                         ELSE k \in DOMAIN f /\ f[k] = LocationValue(k, loc)]_vars

\* C16 witness: the record was emitted without Location and has no res_location* key,
\* although the handler set the header afterwards
C16_Witness ==
    /\ NumCompletionLogs = 1
    /\ cfg = DefaultReqResConfig
    /\ DOMAIN CompletionLogs[1].fields \cap LocationFields = {}
    /\ Get(hdr, "Location") # <<>>

\* a redirect record holds the host and the compact arguments of its Location
C16_WitnessRedirect ==
    /\ NumCompletionLogs = 1
    /\ cfg = DefaultReqResConfig
    /\ LocationFields \cap DOMAIN CompletionLogs[1].fields =
          {LocationArgsField, LocationHostField}
    /\ CompletionLogs[1].fields[LocationHostField] = <<"/", "h">>
    /\ CompletionLogs[1].fields[LocationArgsField] =
          <<"a", "=", ".", ".", ".", "&", "b", "=", ".", ".", ".">>

(***************************************************************************)
(* C17: WriteHeader after the commit                                       *)
(***************************************************************************)

WriterWriteHeaders == SelectSeq(events, LAMBDA e : IsWriter(e, "WriteHeader"))

\* C17: a WriteHeader call on a committed observer changes none of status, size,
\* committed, logged, forwards nothing to the underlying writer and emits nothing (the
\* step only records the call and its return); hence the recorded status never changes
\* once committed and the underlying writer receives at most one WriteHeader.
C17_SetStatusOnlyUncommitted ==
    [][/\ (StepIs("WriteHeader") /\ committed) =>
             /\ <<status, size, committed, logged>>' = <<status, size, committed, logged>>
             /\ Len(NewEvents) = 2
             /\ NewEvents[2].kind = "return"
       /\ committed => status' = status
       /\ Len(WriterWriteHeaders') <= 1]_vars

\* C17 witness: the handler called WriteHeader(200) and then WriteHeader(302): the
\* observer still records 200 and the writer received one header commit
C17_Witness ==
    /\ Len(Calls) >= 2
    /\ IsCall(Calls[1], "WriteHeader") /\ Calls[1].arg = 200
    /\ IsCall(Calls[2], "WriteHeader") /\ Calls[2].arg = 302
    /\ events[Len(events)].kind = "return"
    /\ status = 200
    /\ Len(WriterWriteHeaders) = 1

(***************************************************************************)
(* C18: the lifecycle Uncommitted -> Committed -> Logged                   *)
(***************************************************************************)

ObserverInv ==
    /\ logged => committed
    /\ ~committed => status = 0 /\ size = 0 /\ ~logged

\* C18: in every reachable state logged implies committed, and an uncommitted observer
\* has status 0, size 0 and logged false; no step takes committed or logged from true
\* back to false.
C18_ObserverLifecycle ==
    [][/\ ObserverInv
       /\ ObserverInv'
       /\ committed => committed'
       /\ logged => logged']_vars

\* C18 witness: the handler has returned from an observer that went through the three
\* stages: committed with 302 and no Location, then logged by a Write of two bytes
C18_Witness ==
    /\ pc = "done"
    /\ committed /\ logged
    /\ status = 302 /\ size = 2
    /\ ~RedirectCommit

(***************************************************************************)
(* C19: forwarding and emission, in program order                          *)
(***************************************************************************)

\* a call the sink receives from responseLogger.log
IsEmission(e) == e.kind = "sink" /\ e.by = "log"

\* in the sequence es, an event satisfying P comes before position i
Before(es, i, P(_)) == \E j \in 1..(i - 1) : P(es[j])

IsHeaderForward(e) == IsWriter(e, "WriteHeader")

IsBytesForward(e) == IsWriter(e, "Write")

\* the sink is never called by log before the writer has received the header commit
CommitBeforeEmission(es) ==
    \A i \in 1..Len(es) : IsEmission(es[i]) => Before(es, i, IsHeaderForward)

\* C19: within WriteHeader the status is forwarded to the underlying writer before
\* the emission; within a Write the header commit and the forwarding of the bytes both
\* come before the emission; the sink is never called for an observer before the
\* writer has received the header commit.
C19_ForwardBeforeEmit ==
    [][/\ StepIs("WriteHeader") =>
             \A i \in 1..Len(NewEvents) :
                IsEmission(NewEvents[i]) => Before(NewEvents, i, IsHeaderForward)
       /\ StepIs("Write") =>
             \A i \in 1..Len(NewEvents) :
                IsEmission(NewEvents[i]) => Before(NewEvents, i, IsBytesForward)
       /\ CommitBeforeEmission(events')]_vars

\* C19 as the code has it: the same, except that a Write on an uncommitted observer
\* whose Location is non-empty emits inside its implicit header commit, after the
\* status was forwarded and before the bytes are.
C19_ForwardBeforeEmitAmended ==
    [][/\ StepIs("WriteHeader") =>
             \A i \in 1..Len(NewEvents) :
                IsEmission(NewEvents[i]) => Before(NewEvents, i, IsHeaderForward)
       /\ StepIs("Write") =>
             \A i \in 1..Len(NewEvents) :
                IsEmission(NewEvents[i]) =>
                   IF ~committed /\ Get(hdr, "Location") # <<>>
                   THEN /\ Before(NewEvents, i, IsHeaderForward)
                        /\ ~Before(NewEvents, i, IsBytesForward)
                   ELSE Before(NewEvents, i, IsBytesForward)
       /\ CommitBeforeEmission(events')]_vars

\* C19 witness: the first call was a Write with Location set: the writer received the
\* header commit, then the sink its record, then the writer the bytes
C19_Witness ==
    /\ Len(Calls) = 1 /\ IsCall(Calls[1], "Write")
    /\ NumCompletionLogs = 1
    /\ \E i, j, k \in 1..Len(events) :
          /\ i < j /\ j < k
          /\ IsHeaderForward(events[i])
          /\ IsCompletionLog(events[j])
          /\ IsBytesForward(events[k])

\* an emission made by a Write after it forwarded the bytes
C19_WitnessWrite ==
    /\ NumCompletionLogs = 1
    /\ ~RedirectCommit
    /\ \E j, k \in 1..Len(events) :
          k < j /\ IsBytesForward(events[k]) /\ IsCompletionLog(events[j])

(***************************************************************************)
(* C20: the observer in place of the writer                                *)
(***************************************************************************)

\* what a writer used directly would have received for the handler's calls: one header
\* commit with the first status, then every Write with its bytes, in order
ExpectedWriterCalls ==
    IF Len(Calls) = 0 THEN <<>>
    ELSE LET writes == SelectSeq(Calls, LAMBDA c : IsCall(c, "Write"))
         IN  <<(<<"WriteHeader", FirstStatus>>)>>
             \o [i \in 1..Len(writes) |-> <<"Write", writes[i].arg>>]

\* what the underlying writer did receive
ReceivedWriterCalls ==
    [i \in 1..Len(WriterCalls) |->
        IF WriterCalls[i].op = "WriteHeader"
        THEN <<"WriteHeader", WriterCalls[i].code>>
        ELSE <<"Write", WriterCalls[i].b>>]

\* C20: for the calls a handler has made, the underlying writer received every Write
\* once, with the same bytes and in the same order (also after the emission), after
\* exactly one WriteHeader carrying the handler's first status code, or 200 when its
\* first call is a Write; nothing else is withheld than WriteHeader calls made after
\* the commit.
C20_TransparentSubstitution == ReceivedWriterCalls = ExpectedWriterCalls

\* C20 witness: Write("xy"), WriteHeader(302), Write(""): the writer received
\* WriteHeader(200) and the two Writes, the second one after the record was emitted
C20_Witness ==
    /\ Len(Calls) = 3
    /\ IsCall(Calls[2], "WriteHeader") /\ Calls[2].arg = 302
    /\ logged
    /\ ReceivedWriterCalls =
          <<(<<"WriteHeader", 200>>), (<<"Write", <<"x", "y">> >>), (<<"Write", <<>> >>)>>

(***************************************************************************)
(* C21: the emission deferred after a commit without Location              *)
(***************************************************************************)

\* the completion Log calls among the events of the step being taken
NewCompletionLogs == SelectSeq(NewEvents, IsCompletionLog)

C21_WitnessWrite ==
    /\ Len(Calls) = 2
    /\ IsCall(Calls[1], "WriteHeader") /\ IsCall(Calls[2], "Write")
    /\ ~RedirectCommit
    /\ NumCompletionLogs = 1

(***************************************************************************)
(* C22: two observers of one Logger (under SpecIsolation)                  *)
(***************************************************************************)

\* the trace of observer i: its handler's calls, its writer's, its completion Logs
OwnCalls(i) == SelectSeq(events[i], LAMBDA e : e.kind = "call")

OwnWriterWrites(i) == SelectSeq(events[i], LAMBDA e : IsWriter(e, "Write"))

OwnCompletionLogs(i) == SelectSeq(events[i], IsCompletionLog)

\* the writer of observer i received a header commit carrying a Location
OwnRedirectCommit(i) ==
    \E k \in 1..Len(events[i]) :
        IsWriter(events[i][k], "WriteHeader") /\ Get(events[i][k].hdr, "Location") # <<>>

\* what the shared sink received from observer i, in order, without the mark
SinkFrom(i) ==
    LET mine == SelectSeq(events[Sink], LAMBDA e : e.obs = i)
    IN  [k \in 1..Len(mine) |-> [f \in DOMAIN mine[k] \ {"obs"} |-> mine[k][f]]]

RECURSIVE SumSeq(_)
SumSeq(ns) == IF Len(ns) = 0 THEN 0 ELSE ns[1] + SumSeq(Tail(ns))

\* the state of observer i as its own calls determine it
OwnCallsDetermine(i) ==
    LET calls  == OwnCalls(i)
        writes == SelectSeq(calls, LAMBDA c : IsCall(c, "Write"))
        count  == Len(OwnCompletionLogs(i))
    IN  /\ count <= 1
        /\ count = 1 <=> (Len(writes) >= 1 \/ OwnRedirectCommit(i))
        /\ logged[i] <=> count = 1
        /\ committed[i] <=> Len(calls) >= 1
        /\ status[i] = IF Len(calls) = 0 THEN 0
                       ELSE IF IsCall(calls[1], "WriteHeader") THEN calls[1].arg
                       ELSE StatusOK
        /\ size[i] = SumSeq([k \in 1..Len(writes) |-> Len(writes[k].arg)])
        /\ SinkFrom(i) = SelectSeq(events[i], LAMBDA e : e.kind = "sink")

\* a step belongs to one observer: the other one's fields, header, trace and position
\* stay as they are
StepOfOne ==
    \E i \in Observers : \A j \in Observers \ {i} :
        /\ <<hdr[j], status[j], size[j], committed[j], logged[j], events[j], pc[j]>>'
              = <<hdr[j], status[j], size[j], committed[j], logged[j], events[j], pc[j]>>

\* the completion record observer i emits in the step being taken is computed from its
\* own request, its own header map and its own status and size as they are then
OwnRecord(i) ==
    LET new == SubSeq(events'[i], Len(events[i]) + 1, Len(events'[i]))
    IN  \A k \in 1..Len(new) :
           IsCompletionLog(new[k]) =>
              LET at == [Observer(i)' EXCEPT !.size =
                           IF \E j \in 1..(k - 1) : IsWriter(new[j], "Write")
                           THEN size'[i] ELSE size[i]]
              IN  /\ new[k].fields = ExpectedCompletionRecord(at)
                  /\ new[k].msg = IF Get(hdr[i], "Location") # <<>>
                                  THEN RedirectingMsg ELSE RespondingMsg

\* C22: for two responseLoggers made by WrapResponse from one Logger for different
\* requests, under every interleaving of the calls made on them: a step of one leaves
\* the other as it is; each one's state and emission count (at most one) are those
\* its own calls determine, and its record is computed from its own request and
\* headers; the completion Logs the shared sink received are as many as the two
\* observers emitted together.
C22_PerRequestIsolation ==
    [][/\ StepOfOne
       /\ \A i \in Observers : OwnCallsDetermine(i)' /\ OwnRecord(i)
       /\ Len(SelectSeq(events'[Sink], IsCompletionLog)) =
             SumSeq([i \in 1..Cardinality(Observers) |-> Len(OwnCompletionLogs(i)')])]_vars

\* C22 witness: observer 1 committed 302 without Location, then observer 2 emitted by
\* its Write, then observer 1 by its own: the sink holds two completion Logs, the
\* first one from observer 2, with different records
C22_Witness ==
    /\ cfg = DefaultResponseOnlyConfig
    /\ status = <<302, 200>>
    /\ size = <<1, 1>>
    /\ Len(OwnCalls(1)) = 2 /\ Len(OwnCalls(2)) = 1
    /\ LET logs == SelectSeq(events[Sink], IsCompletionLog)
       IN  /\ Len(logs) = 2
           /\ logs[1].obs = 2 /\ logs[2].obs = 1
           /\ logs[1].fields # logs[2].fields
           /\ logs[2].fields[StatusField] = <<"3", "0", "2">>
           /\ logs[1].fields[StatusField] = <<"2", "0", "0">>

====
